---- MODULE Spec2Model ----
(***************************************************************************)
(* Model of src/app/calculate/drawing_process.rs: the local-search         *)
(* assignment engine (DrawingState::new / DrawingState::step), the stroke  *)
(* cohesion reward, the locality policy (DrawingParams::max_dist) and the  *)
(* continuous worker drawing_process_genetic with its channel, its two     *)
(* RwLock-protected tables and its generation token.                       *)
(*                                                                         *)
(* Vectors are functions over 0..n-1, so that index arithmetic is the      *)
(* source's. The canvas constant is scaled down (128 in the source).       *)
(***************************************************************************)
EXTENDS Integers, Sequences, FiniteSets, TLC

\* ---------------------------------------------------------------- sizes

\* pub const DRAWING_CANVAS_SIZE: usize = 128, scaled to a 2x2 canvas.
DRAWING_CANVAS_SIZE == 2

\* Declared outside this file; the worker's batch is this many attempts per pixel.
SWAPS_PER_GENERATION_PER_PIXEL == 1

\* frand::Rand::with_seed(12345)
RNG_SEED == 12345

\* Decay period of max_dist: age / 30.
DECAY_PERIOD == 30

\* The abstract generator's state is its position in the stream, modulo this.
RngPeriod == 2
\* Writes of the painting collaborator in one run.
MaxPaints == 1
\* Advances of the generation token in one run.
MaxSupersede == 1
\* Capacity of the bounded output channel (mpsc::sync_channel).
ChanCap == 1
\* Largest batch size a caller passes to DrawingState::step.
MaxSwaps == 2

CanvasCells == 0 .. (DRAWING_CANVAS_SIZE * DRAWING_CANVAS_SIZE - 1)

\* ---------------------------------------------------------------- numbers

Abs(v) == IF v < 0 THEN -v ELSE v
Max(a, b) == IF a >= b THEN a ELSE b
Min(a, b) == IF a <= b THEN a ELSE b
Clamp(v, lo, hi) == IF v < lo THEN lo ELSE IF v > hi THEN hi ELSE v

RECURSIVE Pow(_, _)
Pow(b, e) == IF e = 0 THEN 1 ELSE b * Pow(b, e - 1)

\* `as i16` of a non-negative integer: two's complement wrap to 16 bits.
AsI16(v) == LET m == v % 65536 IN IF m >= 32768 THEN m - 65536 ELSE m

\* `as u32` of a float that holds an integer: saturates below at 0.
F32AsU32(v) == IF v < 0 THEN 0 ELSE v

\* Spacing of f32 values around n >= 0: 1 below 2^24, then doubling per octave.
RECURSIVE F32Spacing(_, _)
F32Spacing(n, s) == IF n < 16777216 * s THEN s ELSE F32Spacing(n, 2 * s)

\* `n as f32` for a u32: round to nearest representable, ties to even mantissa.
U32AsF32(n) ==
    LET s == F32Spacing(n, 1)
        q == n \div s
        r == n % s
    IN  IF 2 * r < s THEN q * s
        ELSE IF 2 * r > s THEN (q + 1) * s
        ELSE IF q % 2 = 0 THEN q * s ELSE (q + 1) * s

\* f32::round of the rational p/q (q > 0): nearest integer, half away from zero.
RoundHalfAway(p, q) ==
    IF p >= 0 THEN (2 * p + q) \div (2 * q)
    ELSE -((2 * (-p) + q) \div (2 * q))

\* (rgba[k] * 256.0) as u8 for a channel held in 256ths: the cast saturates at 255.
ChannelAsU8(c) == IF c > 255 THEN 255 ELSE IF c < 0 THEN 0 ELSE c

\* ---------------------------------------------------------------- locality policy

\* Invalid alternative: the floor at max_dist_min is left out.
max_dist_no_floor(params, age) ==
    LET decay_steps == age \div DECAY_PERIOD
        p == U32AsF32(params.max_dist_base) * Pow(params.max_dist_decay.num, decay_steps)
        q == Pow(params.max_dist_decay.den, decay_steps)
    IN  F32AsU32(RoundHalfAway(p, q))

\* Invalid alternative: the product is cut to an integer by the cast, without round().
max_dist_truncating(params, age) ==
    LET decay_steps == age \div DECAY_PERIOD
        p == U32AsF32(params.max_dist_base) * Pow(params.max_dist_decay.num, decay_steps)
        q == Pow(params.max_dist_decay.den, decay_steps)
        cut == IF p >= 0 THEN p \div q ELSE -((-p) \div q)
    IN  F32AsU32(Max(cut, U32AsF32(params.max_dist_min)))

\* DrawingParams::max_dist. max_dist_decay is the rational num/den (den > 0); the
\* power and the product are taken exactly.
max_dist(params, age) ==
    LET decay_steps == age \div DECAY_PERIOD
        p == U32AsF32(params.max_dist_base) * Pow(params.max_dist_decay.num, decay_steps)
        q == Pow(params.max_dist_decay.den, decay_steps)
    IN  F32AsU32(Max(RoundHalfAway(p, q), U32AsF32(params.max_dist_min)))

\* u32::saturating_sub
saturating_sub(a, b) == IF a >= b THEN a - b ELSE 0

\* ---------------------------------------------------------------- cost model

\* The pairwise cost primitive (super::heuristic): weighted squared colour
\* difference plus the squared, proximity-scaled squared distance.
heuristic(apos, bpos, a, b, color_weight, spatial_weight) ==
    LET spatial == (apos[1] - bpos[1]) * (apos[1] - bpos[1])
                   + (apos[2] - bpos[2]) * (apos[2] - bpos[2])
        color == (a[1] - b[1]) * (a[1] - b[1]) + (a[2] - b[2]) * (a[2] - b[2])
                 + (a[3] - b[3]) * (a[3] - b[3])
    IN  color * color_weight + (spatial * spatial_weight) * (spatial * spatial_weight)

\* Index of a source pixel's entry in the canvas-sized tables (colors, pixel_data).
CanvasIndex(p) == p.src_y * DRAWING_CANVAS_SIZE + p.src_x

\* DrawingPixel::calc_drawing_heuristic; colors[..] must be in bounds (see below).
calc_drawing_heuristic(p, target_pos, target_col, weight, colors, proximity_importance) ==
    LET rgba == colors[CanvasIndex(p)]
    IN  heuristic(<<p.src_x, p.src_y>>, target_pos,
                  <<ChannelAsU8(rgba[1]), ChannelAsU8(rgba[2]), ChannelAsU8(rgba[3])>>,
                  target_col, weight, proximity_importance)

\* The index of calc_drawing_heuristic is out of the colour table: the call panics.
CalcPanics(p, colors) == CanvasIndex(p) \notin DOMAIN colors

\* ---------------------------------------------------------------- stroke cohesion

\* Invalid alternative: the 8-connected neighbourhood of the function's comment.
NeighbourOffsets8 ==
    << <<-1, -1>>, <<0, -1>>, <<1, -1>>, <<-1, 0>>, <<1, 0>>, <<-1, 1>>, <<0, 1>>, <<1, 1>> >>

\* The neighbour offsets the loop of stroke_reward_with_params visits, in order.
NeighbourOffsets == << <<0, -1>>, <<-1, 0>>, <<1, 0>>, <<0, 1>> >>

\* What a call does: it returns a value, or it panics with one of these messages.
IndexOutOfBounds == "index out of bounds"
SubtractOverflow == "attempt to subtract with overflow"
UnwrapErr == "called Result::unwrap() on an Err value"
Returned(v) == [panic |-> FALSE, why |-> "", value |-> v]
Panicked(why) == [panic |-> TRUE, why |-> why, value |-> 0]

\* The loop over the neighbours from offset k on: the first in-canvas neighbour whose
\* occupant's cell has the stroke id returns the reward; an index out of pixels or
\* out of pixel_data panics.
RECURSIVE ScanNeighbours(_, _, _, _, _, _, _)
ScanNeighbours(k, x, y, stroke_id, pixel_data, pixels, params) ==
    IF k > Len(NeighbourOffsets) THEN Returned(0)
    ELSE
      LET nx == x + NeighbourOffsets[k][1]
          ny == y + NeighbourOffsets[k][2]
          npos == ny * DRAWING_CANVAS_SIZE + nx
      IN  IF nx < 0 \/ nx >= DRAWING_CANVAS_SIZE \/ ny < 0 \/ ny >= DRAWING_CANVAS_SIZE
          THEN ScanNeighbours(k + 1, x, y, stroke_id, pixel_data, pixels, params)
          ELSE IF npos \notin DOMAIN pixels THEN Panicked(IndexOutOfBounds)
          ELSE IF CanvasIndex(pixels[npos]) \notin DOMAIN pixel_data
               THEN Panicked(IndexOutOfBounds)
          ELSE IF pixel_data[CanvasIndex(pixels[npos])].stroke_id = stroke_id
               THEN Returned(params.stroke_reward)
          ELSE ScanNeighbours(k + 1, x, y, stroke_id, pixel_data, pixels, params)

\* stroke_reward_with_params. `checks` is the build's overflow-checks setting: with
\* it, `frame_count - data.last_edited` panics when it would go below zero; without
\* it the unused difference wraps.
stroke_reward_with_params(newpos, oldpos, pixel_data, pixels, frame_count, params, checks) ==
    LET x == newpos % DRAWING_CANVAS_SIZE
        y == newpos \div DRAWING_CANVAS_SIZE
    IN  IF oldpos \notin DOMAIN pixels THEN Panicked(IndexOutOfBounds)
        ELSE IF CanvasIndex(pixels[oldpos]) \notin DOMAIN pixel_data
             THEN Panicked(IndexOutOfBounds)
        ELSE LET data == pixel_data[CanvasIndex(pixels[oldpos])]
             IN  IF checks /\ frame_count < data.last_edited
                 THEN Panicked(SubtractOverflow)
                 ELSE ScanNeighbours(1, x, y, data.stroke_id, pixel_data, pixels, params)

\* ---------------------------------------------------------------- one swap attempt

\* Canvas coordinates of a position of the permutation (ax, ay / bx, by).
PosX(pos, sidelen) == pos % sidelen
PosY(pos, sidelen) == pos \div sidelen

\* The allowed radius the attempt computes for a position: max_dist of the age of
\* pixel_data[pos], the age saturating at zero.
RadiusAt(pos, pixel_data, frame_count, params) ==
    max_dist(params, saturating_sub(frame_count, pixel_data[pos].last_edited))

\* Invalid alternative: the attempt is abandoned only when both |dx| and |dy| exceed
\* the radius of B.
GateRejectsBothAxes(a, b, sidelen, max_dist_b) ==
    /\ Abs(PosX(b, sidelen) - PosX(a, sidelen)) > max_dist_b
    /\ Abs(PosY(b, sidelen) - PosY(a, sidelen)) > max_dist_b

\* The locality gate: the attempt is abandoned (continue) when |dx| or |dy| exceeds
\* the radius of B.
GateRejects(a, b, sidelen, max_dist_b) ==
    \/ Abs(PosX(b, sidelen) - PosX(a, sidelen)) > max_dist_b
    \/ Abs(PosY(b, sidelen) - PosY(a, sidelen)) > max_dist_b

\* Invalid alternative: a neutral swap is accepted too.
AcceptsNonNegative(improvement) == improvement >= 0

\* The acceptance test of the summed improvement.
Accepts(improvement) == improvement > 0

\* Invalid alternative: B's pixel is copied over A's and A's pixel is lost.
SwapPixelsOverwrite(pixels, a, b, b_on_a_base, a_on_b_base) ==
    LET copied == [pixels EXCEPT ![a] = pixels[b]]
        ha == [copied EXCEPT ![a].h = b_on_a_base]
    IN  [ha EXCEPT ![b].h = a_on_b_base]

\* pixels.swap(apos, bpos) followed by the two update_heuristic calls.
SwapPixels(pixels, a, b, b_on_a_base, a_on_b_base) ==
    LET swapped == [pixels EXCEPT ![a] = pixels[b], ![b] = pixels[a]]
        ha == [swapped EXCEPT ![a].h = b_on_a_base]
    IN  [ha EXCEPT ![b].h = a_on_b_base]

\* The cost accounting of one attempt on positions a and b that passed the gate:
\* whether some index or subtraction panics, and otherwise the two base costs and the
\* summed improvement.
CostAccounting(pixels, a, b, st, tp, w, colors, pixel_data, frame_count, params, checks) ==
    LET ra == stroke_reward_with_params(a, a, pixel_data, pixels, frame_count, params, checks)
        rb == stroke_reward_with_params(b, b, pixel_data, pixels, frame_count, params, checks)
        rab == stroke_reward_with_params(b, a, pixel_data, pixels, frame_count, params, checks)
        rba == stroke_reward_with_params(a, b, pixel_data, pixels, frame_count, params, checks)
        failed(why) == [panic |-> TRUE, why |-> why, a_on_b_base |-> 0,
                        b_on_a_base |-> 0, improvement |-> 0]
    IN  IF ra.panic THEN failed(ra.why)
        ELSE IF rb.panic THEN failed(rb.why)
        ELSE IF CalcPanics(pixels[a], colors) \/ CalcPanics(pixels[b], colors)
        THEN failed(IndexOutOfBounds)
        ELSE IF rab.panic THEN failed(rab.why)
        ELSE IF rba.panic THEN failed(rba.why)
        ELSE
          LET current_a == pixels[a].h + ra.value
              current_b == pixels[b].h + rb.value
              a_on_b_base == calc_drawing_heuristic(pixels[a],
                                 <<PosX(b, st.sidelen), PosY(b, st.sidelen)>>,
                                 tp[b], w[b], colors, st.proximity_importance)
              b_on_a_base == calc_drawing_heuristic(pixels[b],
                                 <<PosX(a, st.sidelen), PosY(a, st.sidelen)>>,
                                 tp[a], w[a], colors, st.proximity_importance)
              a_on_b_h == a_on_b_base + rab.value
              b_on_a_h == b_on_a_base + rba.value
              improvement_a == current_a - b_on_a_h
              improvement_b == current_b - a_on_b_h
          IN  [panic |-> FALSE, why |-> "", a_on_b_base |-> a_on_b_base,
               b_on_a_base |-> b_on_a_base,
               improvement |-> improvement_a + improvement_b]

\* The identity ordering both constructors build, each h computed at the pixel's own
\* position against the colour table given.
InitialPixels(st, tp, w, colors) ==
    [i \in 0 .. (st.sidelen * st.sidelen - 1) |->
        LET x == i % st.sidelen
            y == i \div st.sidelen
            p == [src_x |-> x, src_y |-> y, h |-> 0]
        IN  [p EXCEPT !.h = calc_drawing_heuristic(p, <<x, y>>, tp[i], w[i], colors,
                                                   st.proximity_importance)]]

\* Some pixel of the identity ordering indexes out of the colour table.
InitialPixelsPanic(st, colors) ==
    \E i \in 0 .. (st.sidelen * st.sidelen - 1) :
        CalcPanics([src_x |-> i % st.sidelen, src_y |-> i \div st.sidelen, h |-> 0], colors)

\* The permutation as published: src_y * sidelen + src_x for each position.
Assignments(pixels, sidelen) ==
    [i \in DOMAIN pixels |-> pixels[i].src_y * sidelen + pixels[i].src_x]

\* ---------------------------------------------------------------- inputs

Black == <<0, 0, 0, 256>>
White == <<256, 256, 256, 256>>
SeedColors == {Black, White}

TargetBlack == <<0, 0, 0>>
TargetWhite == <<255, 255, 255>>

\* Bit i of a mask: the tables below are drawn from masks over the cells.
Bit(mask, i) == (mask \div Pow(2, i)) % 2

\* Side lengths the settings may carry: below, at and above the canvas size.
Sidelens == {DRAWING_CANVAS_SIZE - 1, DRAWING_CANVAS_SIZE, DRAWING_CANVAS_SIZE + 1}
ProximityImportances == {0, 1}

\* Target images (white where the mask has a 1) and weights from get_images.
TargetMasks == {5}
TargetTable(n, mask) ==
    [i \in 0 .. (n - 1) |-> IF Bit(mask, i) = 1 THEN TargetWhite ELSE TargetBlack]
WeightTable(n) == [i \in 0 .. (n - 1) |-> 1 + (i % 2)]

\* Colour tables of the canvas (white where the mask has a 1).
ColorMasks == {6}
ColorTable(mask) == [c \in CanvasCells |-> IF Bit(mask, c) = 1 THEN White ELSE Black]

\* Time steps: the worker's frame_count and the cells' last_edited.
OldFrame == 0
LaunchFrame == 30
LateFrame == 60
Frames == {OldFrame, LaunchFrame, LateFrame}
StrokeIds == {0, 1}
\* The stroke the painting collaborator is drawing during the run.
NewStroke == 1

\* CanvasCell tables: stroke 1 where the stroke mask has a 1, edited at LaunchFrame
\* where the edit mask has a 1 and at OldFrame elsewhere.
StrokeMasks == {6}
EditMasks == {0, 9}
PixelDataTable(smask, emask) ==
    [c \in CanvasCells |->
        [stroke_id |-> Bit(smask, c),
         last_edited |-> IF Bit(emask, c) = 1 THEN LaunchFrame ELSE OldFrame]]

\* PixelData::init_canvas
init_canvas(frame_count) ==
    [c \in CanvasCells |-> [stroke_id |-> 0, last_edited |-> frame_count]]

Decays == {[num |-> 0, den |-> 1]}
DrawingParamsSet ==
    [stroke_reward : {0, 3}, max_dist_base : {1}, max_dist_decay : Decays,
     max_dist_min : {0}]

NoPos == 0 - 1
NoTable == <<>>

\* What an entry point returned: nothing yet ("none"), "Ok", "Err" (the send error),
\* step's "Some" permutation or "None", or the message of the panic that ended it.
Outcome(kind) == [kind |-> kind, assignments |-> <<>>]
NoResult == Outcome("none")
SomeAssignments(a) == [kind |-> "Some", assignments |-> a]

\* ProgressMsg::UpdateAssignments(assignments) and ProgressMsg::Cancelled
UpdateAssignments(a) == [kind |-> "UpdateAssignments", assignments |-> a]
Cancelled == [kind |-> "Cancelled", assignments |-> <<>>]

\* ---------------------------------------------------------------- state

VARIABLES
    entry,              \* which entry point runs: "step" or "genetic"
    settings,           \* GenerationSettings: sidelen, proximity_importance
    target_pixels,      \* per position target colour
    weights,            \* per position weight
    params,             \* DrawingParams of the run / of the current step call
    frame_count,        \* the time step the engine was given
    shared_colors,      \* the colour table behind its RwLock
    shared_pixel_data,  \* the CanvasCell table behind its RwLock
    colors_lock,        \* "free" or "read" (held by the worker)
    pixel_data_lock,    \* "free" or "read" (held by the worker)
    colors,             \* the colour table the current batch evaluates against
    pixel_data,         \* the CanvasCell table the current batch evaluates against
    pixels,             \* the permutation with its cached costs
    rng,                \* position of the generator in its stream
    max_swaps,          \* attempts of the current batch
    attempt,            \* loop index of the batch
    swaps_made,         \* accepted swaps of the current batch
    apos,               \* position A of the attempt in progress
    bpos,               \* position B of the attempt in progress
    pc,                 \* where the engine or worker stands
    result,             \* what the entry point returned
    my_id,              \* the worker's stamp
    current_id,         \* the live generation token
    chan,               \* messages in the output channel
    rx_alive,           \* the consumer still holds the receiver
    paints,             \* writes of the painting collaborator so far
    age,                \* argument of the last call of max_dist on its own
    radius,             \* what that call returned
    successor           \* where the worker launched with the next stamp stands

vars == <<entry, settings, target_pixels, weights, params, frame_count,
          shared_colors, shared_pixel_data, colors_lock, pixel_data_lock, colors,
          pixel_data, pixels, rng, max_swaps, attempt, swaps_made, apos, bpos, pc,
          result, my_id, current_id, chan, rx_alive, paints, age, radius, successor>>

\* Variables that no step of the engine, the worker or their collaborators changes.
config == <<entry, settings, target_pixels, weights, my_id, age, radius, successor>>
\* The shared tables and their locks.
shared == <<shared_colors, shared_pixel_data, colors_lock, pixel_data_lock, paints>>
\* The launcher's and the consumer's side.
outside == <<current_id, chan, rx_alive>>

Init ==
    /\ entry \in {"step", "genetic"}
    /\ settings \in [sidelen : Sidelens, proximity_importance : ProximityImportances]
    /\ \E m \in TargetMasks :
          target_pixels = TargetTable(settings.sidelen * settings.sidelen, m)
    /\ weights = WeightTable(settings.sidelen * settings.sidelen)
    /\ params \in DrawingParamsSet
    /\ frame_count = LaunchFrame
    /\ \E m \in ColorMasks : shared_colors = ColorTable(m)
    /\ \/ shared_pixel_data = init_canvas(LaunchFrame)
       \/ \E sm \in StrokeMasks, em \in EditMasks :
             shared_pixel_data = PixelDataTable(sm, em)
    /\ colors_lock = "free"
    /\ pixel_data_lock = "free"
    /\ colors = NoTable
    /\ pixel_data = NoTable
    /\ pixels = <<>>
    /\ rng = RNG_SEED % RngPeriod
    /\ max_swaps = 0
    /\ attempt = 0
    /\ swaps_made = 0
    /\ apos = NoPos
    /\ bpos = NoPos
    /\ pc = IF entry = "step" THEN "new" ELSE "setup"
    /\ result = NoResult
    /\ my_id = 1
    /\ current_id = 1
    /\ chan = <<>>
    /\ rx_alive = TRUE
    /\ paints = 0
    /\ age = 0
    /\ radius = 0
    /\ successor = "absent"

\* ---------------------------------------------------------------- the batch loop

\* The gen_range calls advance the generator; what they return is any value of range.
Advance(g, draws) == (g + draws) % RngPeriod

\* Where the loop goes after an attempt: the next attempt or the end of the batch.
LoopEnd == IF entry = "step" THEN "return" ELSE "publish"
AfterAttempt(k) == IF k < max_swaps THEN "draw" ELSE LoopEnd

Panic(why) ==
    /\ pc' = "panicked"
    /\ result' = Outcome(why)

\* Draw A, A's radius, and B by two offsets in [-radius, radius], clamped.
DrawAttempt ==
    /\ pc = "draw"
    /\ \E a \in DOMAIN pixels :
          IF a \notin DOMAIN pixel_data
          THEN /\ Panic(IndexOutOfBounds)
               /\ rng' = Advance(rng, 1)
               /\ UNCHANGED <<apos, bpos>>
          ELSE LET max_dist_a == RadiusAt(a, pixel_data, frame_count, params)
                   r == AsI16(max_dist_a)
               IN  \E ox \in (-r) .. r, oy \in (-r) .. r :
                      LET bx == Clamp(PosX(a, settings.sidelen) + ox, 0, settings.sidelen - 1)
                          by == Clamp(PosY(a, settings.sidelen) + oy, 0, settings.sidelen - 1)
                      IN  /\ apos' = a
                          /\ bpos' = by * settings.sidelen + bx
                          /\ rng' = Advance(rng, 3)
                          /\ pc' = "eval"
                          /\ UNCHANGED result
    /\ UNCHANGED <<config, shared, outside, params, frame_count, colors, pixel_data,
                   pixels, max_swaps, attempt, swaps_made>>

\* The build's overflow-checks setting: on in a debug build, off in a release build.
OverflowChecks == BOOLEAN

\* The gate on B's radius, the cost accounting and the swap.
EvalAttempt ==
    /\ pc = "eval"
    /\ IF bpos \notin DOMAIN pixel_data
       THEN /\ Panic(IndexOutOfBounds)
            /\ UNCHANGED <<pixels, swaps_made, attempt, apos, bpos>>
       ELSE IF GateRejects(apos, bpos, settings.sidelen,
                           RadiusAt(bpos, pixel_data, frame_count, params))
       THEN /\ attempt' = attempt + 1
            /\ pc' = AfterAttempt(attempt + 1)
            /\ apos' = NoPos
            /\ bpos' = NoPos
            /\ UNCHANGED <<pixels, swaps_made, result>>
       ELSE \E checks \in OverflowChecks :
            LET c == CostAccounting(pixels, apos, bpos, settings, target_pixels, weights,
                                    colors, pixel_data, frame_count, params, checks)
            IN  IF c.panic
                THEN /\ Panic(c.why)
                     /\ UNCHANGED <<pixels, swaps_made, attempt, apos, bpos>>
                ELSE /\ IF Accepts(c.improvement)
                        THEN /\ pixels' = SwapPixels(pixels, apos, bpos,
                                                     c.b_on_a_base, c.a_on_b_base)
                             /\ swaps_made' = swaps_made + 1
                        ELSE UNCHANGED <<pixels, swaps_made>>
                     /\ attempt' = attempt + 1
                     /\ pc' = AfterAttempt(attempt + 1)
                     /\ apos' = NoPos
                     /\ bpos' = NoPos
                     /\ UNCHANGED result
    /\ UNCHANGED <<config, shared, outside, params, frame_count, colors, pixel_data,
                   rng, max_swaps>>

\* ---------------------------------------------------------------- DrawingState

\* DrawingState::new: the identity ordering against the caller's colour table.
New ==
    /\ entry = "step"
    /\ pc = "new"
    /\ IF InitialPixelsPanic(settings, shared_colors)
       THEN /\ Panic(IndexOutOfBounds)
            /\ UNCHANGED <<pixels, rng>>
       ELSE /\ pixels' = InitialPixels(settings, target_pixels, weights, shared_colors)
            /\ rng' = RNG_SEED % RngPeriod
            /\ pc' = "idle"
            /\ UNCHANGED result
    /\ UNCHANGED <<config, shared, outside, params, frame_count, colors, pixel_data,
                   max_swaps, attempt, swaps_made, apos, bpos>>

\* A call of DrawingState::step with the caller's tables, time step and batch size.
StepCall ==
    /\ entry = "step"
    /\ pc = "idle"
    /\ \E ms \in 0 .. MaxSwaps, fc \in {LaunchFrame, LateFrame} :
          /\ max_swaps' = ms
          /\ frame_count' = fc
          /\ pc' = IF ms > 0 THEN "draw" ELSE "return"
    /\ colors' = shared_colors
    /\ pixel_data' = shared_pixel_data
    /\ attempt' = 0
    /\ swaps_made' = 0
    /\ result' = NoResult
    /\ UNCHANGED <<config, shared, outside, params, pixels, rng, apos, bpos>>

StepDraw == entry = "step" /\ DrawAttempt
StepEval == entry = "step" /\ EvalAttempt

\* Invalid alternative: step returns the permutation whether or not a swap was made.
StepReturnAlwaysSome ==
    /\ entry = "step"
    /\ pc = "return"
    /\ result' = SomeAssignments(Assignments(pixels, settings.sidelen))
    /\ pc' = "idle"
    /\ UNCHANGED <<config, shared, outside, params, frame_count, colors, pixel_data,
                   pixels, rng, max_swaps, attempt, swaps_made, apos, bpos>>

\* The end of step: Some(permutation) when a swap was made, None otherwise.
StepReturn ==
    /\ entry = "step"
    /\ pc = "return"
    /\ result' = IF swaps_made > 0
                 THEN SomeAssignments(Assignments(pixels, settings.sidelen))
                 ELSE Outcome("None")
    /\ pc' = "idle"
    /\ UNCHANGED <<config, shared, outside, params, frame_count, colors, pixel_data,
                   pixels, rng, max_swaps, attempt, swaps_made, apos, bpos>>

\* ---------------------------------------------------------------- the worker

\* colors.read() before the identity ordering is built.
GeneticSetupRead ==
    /\ entry = "genetic"
    /\ pc = "setup"
    /\ colors_lock = "free"
    /\ colors_lock' = "read"
    /\ pc' = "setup_build"
    /\ UNCHANGED <<config, outside, params, frame_count, shared_colors, shared_pixel_data,
                   pixel_data_lock, paints, colors, pixel_data, pixels, rng, max_swaps,
                   attempt, swaps_made, apos, bpos, result>>

\* The clone of the colour table, the release of the lock, the identity ordering, the
\* seeded generator and swaps_per_generation.
GeneticSetupBuild ==
    /\ entry = "genetic"
    /\ pc = "setup_build"
    /\ colors_lock' = "free"
    /\ IF InitialPixelsPanic(settings, shared_colors)
       THEN /\ Panic(IndexOutOfBounds)
            /\ UNCHANGED <<pixels, rng, max_swaps>>
       ELSE /\ pixels' = InitialPixels(settings, target_pixels, weights, shared_colors)
            /\ rng' = RNG_SEED % RngPeriod
            /\ max_swaps' = SWAPS_PER_GENERATION_PER_PIXEL
                            * (settings.sidelen * settings.sidelen)
            /\ pc' = "read_colors"
            /\ UNCHANGED result
    /\ UNCHANGED <<config, outside, params, frame_count, shared_colors, shared_pixel_data,
                   pixel_data_lock, paints, colors, pixel_data, attempt, swaps_made,
                   apos, bpos>>

\* let r = colors.read().unwrap();
ReadColors ==
    /\ entry = "genetic"
    /\ pc = "read_colors"
    /\ colors_lock = "free"
    /\ colors_lock' = "read"
    /\ pc' = "clone_colors"
    /\ UNCHANGED <<config, outside, params, frame_count, shared_colors, shared_pixel_data,
                   pixel_data_lock, paints, colors, pixel_data, pixels, rng, max_swaps,
                   attempt, swaps_made, apos, bpos, result>>

\* Invalid alternative: the read guard on the colour table outlives the block.
CloneColorsKeepGuard ==
    /\ entry = "genetic"
    /\ pc = "clone_colors"
    /\ colors' = shared_colors
    /\ pc' = "read_pixel_data"
    /\ UNCHANGED <<config, outside, params, frame_count, shared_colors, shared_pixel_data,
                   colors_lock, pixel_data_lock, paints, pixel_data, pixels, rng,
                   max_swaps, attempt, swaps_made, apos, bpos, result>>

\* r.clone(), and the guard dropped at the end of the block.
CloneColors ==
    /\ entry = "genetic"
    /\ pc = "clone_colors"
    /\ colors' = shared_colors
    /\ colors_lock' = "free"
    /\ pc' = "read_pixel_data"
    /\ UNCHANGED <<config, outside, params, frame_count, shared_colors, shared_pixel_data,
                   pixel_data_lock, paints, pixel_data, pixels, rng, max_swaps,
                   attempt, swaps_made, apos, bpos, result>>

\* let r = pixel_data.read().unwrap();
ReadPixelData ==
    /\ entry = "genetic"
    /\ pc = "read_pixel_data"
    /\ pixel_data_lock = "free"
    /\ pixel_data_lock' = "read"
    /\ pc' = "clone_pixel_data"
    /\ UNCHANGED <<config, outside, params, frame_count, shared_colors, shared_pixel_data,
                   colors_lock, paints, colors, pixel_data, pixels, rng, max_swaps,
                   attempt, swaps_made, apos, bpos, result>>

\* Invalid alternative: the CanvasCell table is copied once, before the first batch,
\* and the later batches keep that copy.
ClonePixelDataOnce ==
    /\ entry = "genetic"
    /\ pc = "clone_pixel_data"
    /\ pixel_data' = IF pixel_data = NoTable THEN shared_pixel_data ELSE pixel_data
    /\ pixel_data_lock' = "free"
    /\ swaps_made' = 0
    /\ attempt' = 0
    /\ pc' = AfterAttempt(0)
    /\ UNCHANGED <<config, outside, params, frame_count, shared_colors, shared_pixel_data,
                   colors_lock, paints, colors, pixels, rng, max_swaps, apos, bpos,
                   result>>

\* r.clone(), the guard dropped, swaps_made = 0 and the entry of the for loop.
ClonePixelData ==
    /\ entry = "genetic"
    /\ pc = "clone_pixel_data"
    /\ pixel_data' = shared_pixel_data
    /\ pixel_data_lock' = "free"
    /\ swaps_made' = 0
    /\ attempt' = 0
    /\ pc' = AfterAttempt(0)
    /\ UNCHANGED <<config, outside, params, frame_count, shared_colors, shared_pixel_data,
                   colors_lock, paints, colors, pixels, rng, max_swaps, apos, bpos,
                   result>>

GeneticDraw == entry = "genetic" /\ DrawAttempt
GeneticEval == entry = "genetic" /\ EvalAttempt

\* A send on the bounded channel can complete: there is room, or the receiver is gone
\* (and the send fails).
SendReturns == ~rx_alive \/ Len(chan) < ChanCap

\* Invalid alternative: the permutation is sent after every batch, swaps or not.
PublishAlways ==
    /\ entry = "genetic"
    /\ pc = "publish"
    /\ SendReturns
    /\ IF rx_alive
       THEN /\ chan' = Append(chan, UpdateAssignments(
                                       Assignments(pixels, settings.sidelen)))
            /\ pc' = "check"
            /\ UNCHANGED result
       ELSE /\ pc' = "returned"
            /\ result' = Outcome("Err")
            /\ UNCHANGED chan
    /\ UNCHANGED <<config, shared, current_id, rx_alive, params, frame_count, colors,
                   pixel_data, pixels, rng, max_swaps, attempt, swaps_made, apos, bpos>>

\* if swaps_made > 0 { tx.send(UpdateAssignments(..))?; }
Publish ==
    /\ entry = "genetic"
    /\ pc = "publish"
    /\ IF swaps_made > 0
       THEN /\ SendReturns
            /\ IF rx_alive
               THEN /\ chan' = Append(chan, UpdateAssignments(
                                               Assignments(pixels, settings.sidelen)))
                    /\ pc' = "check"
                    /\ UNCHANGED result
               ELSE /\ pc' = "returned"
                    /\ result' = Outcome("Err")
                    /\ UNCHANGED chan
       ELSE /\ pc' = "check"
            /\ UNCHANGED <<chan, result>>
    /\ UNCHANGED <<config, shared, current_id, rx_alive, params, frame_count, colors,
                   pixel_data, pixels, rng, max_swaps, attempt, swaps_made, apos, bpos>>

\* if my_id != current_id.load(Relaxed)
CheckGeneration ==
    /\ entry = "genetic"
    /\ pc = "check"
    /\ pc' = IF my_id # current_id THEN "cancel" ELSE "read_colors"
    /\ UNCHANGED <<config, shared, outside, params, frame_count, colors, pixel_data,
                   pixels, rng, max_swaps, attempt, swaps_made, apos, bpos, result>>

\* Invalid alternative: the return after the send of Cancelled is missing and the
\* loop goes on.
SendCancelledNoReturn ==
    /\ entry = "genetic"
    /\ pc = "cancel"
    /\ SendReturns
    /\ IF rx_alive
       THEN /\ chan' = Append(chan, Cancelled)
            /\ pc' = "read_colors"
            /\ UNCHANGED result
       ELSE /\ Panic(UnwrapErr)
            /\ UNCHANGED chan
    /\ UNCHANGED <<config, shared, current_id, rx_alive, params, frame_count, colors,
                   pixel_data, pixels, rng, max_swaps, attempt, swaps_made, apos, bpos>>

\* tx.send(ProgressMsg::Cancelled).unwrap(); return Ok(());
SendCancelled ==
    /\ entry = "genetic"
    /\ pc = "cancel"
    /\ SendReturns
    /\ IF rx_alive
       THEN /\ chan' = Append(chan, Cancelled)
            /\ pc' = "returned"
            /\ result' = Outcome("Ok")
       ELSE /\ Panic(UnwrapErr)
            /\ UNCHANGED chan
    /\ UNCHANGED <<config, shared, current_id, rx_alive, params, frame_count, colors,
                   pixel_data, pixels, rng, max_swaps, attempt, swaps_made, apos, bpos>>

\* ---------------------------------------------------------------- collaborators

Running == pc \notin {"returned", "panicked"}

\* The tables may be written when the engine does not borrow them: any time the worker
\* holds no lock on the table, and between the calls of DrawingState::step.
MayWrite == Running /\ paints < MaxPaints /\ (entry = "step" => pc \in {"new", "idle"})

\* The painting collaborator writes one colour under the write lock.
Recolor ==
    /\ MayWrite
    /\ colors_lock = "free"
    /\ \E c \in CanvasCells, col \in SeedColors :
          /\ shared_colors[c] # col
          /\ shared_colors' = [shared_colors EXCEPT ![c] = col]
    /\ paints' = paints + 1
    /\ UNCHANGED <<config, outside, params, frame_count, shared_pixel_data, colors_lock,
                   pixel_data_lock, colors, pixel_data, pixels, rng, max_swaps, attempt,
                   swaps_made, apos, bpos, pc, result>>

\* The painting collaborator claims one cell for a stroke under the write lock.
Paint ==
    /\ MayWrite
    /\ pixel_data_lock = "free"
    /\ \E c \in CanvasCells, sid \in {NewStroke}, f \in {LateFrame} :
          /\ shared_pixel_data[c] # [stroke_id |-> sid, last_edited |-> f]
          /\ shared_pixel_data' =
                [shared_pixel_data EXCEPT ![c] = [stroke_id |-> sid, last_edited |-> f]]
    /\ paints' = paints + 1
    /\ UNCHANGED <<config, outside, params, frame_count, shared_colors, colors_lock,
                   pixel_data_lock, colors, pixel_data, pixels, rng, max_swaps, attempt,
                   swaps_made, apos, bpos, pc, result>>

\* The launcher advances the generation token.
Supersede ==
    /\ entry = "genetic"
    /\ Running
    /\ current_id < my_id + MaxSupersede
    /\ current_id' = current_id + 1
    /\ UNCHANGED <<config, shared, chan, rx_alive, params, frame_count, colors, pixel_data,
                   pixels, rng, max_swaps, attempt, swaps_made, apos, bpos, pc, result>>

\* The consumer takes the oldest message.
Receive ==
    /\ entry = "genetic"
    /\ rx_alive
    /\ chan # <<>>
    /\ chan' = Tail(chan)
    /\ UNCHANGED <<config, shared, current_id, rx_alive, params, frame_count, colors,
                   pixel_data, pixels, rng, max_swaps, attempt, swaps_made, apos, bpos,
                   pc, result>>

\* The consumer drops the receiver; what the channel still held is dropped with it.
Disconnect ==
    /\ entry = "genetic"
    /\ Running
    /\ rx_alive
    /\ rx_alive' = FALSE
    /\ chan' = <<>>
    /\ UNCHANGED <<config, shared, current_id, params, frame_count, colors, pixel_data,
                   pixels, rng, max_swaps, attempt, swaps_made, apos, bpos, pc, result>>

\* ---------------------------------------------------------------- specification

Next ==
    \/ New
    \/ StepCall
    \/ StepDraw
    \/ StepEval
    \/ StepReturn
    \/ GeneticSetupRead
    \/ GeneticSetupBuild
    \/ ReadColors
    \/ CloneColors
    \/ ReadPixelData
    \/ ClonePixelData
    \/ GeneticDraw
    \/ GeneticEval
    \/ Publish
    \/ CheckGeneration
    \/ SendCancelled
    \/ Recolor
    \/ Paint
    \/ Supersede
    \/ Receive
    \/ Disconnect

Spec == Init /\ [][Next]_vars

\* ---------------------------------------------------------------- the locality policy on its own

\* Parameters and ages for calls of max_dist outside a run: decays below 0, in [0, 1]
\* and above 1, and a floor that f32 cannot hold exactly.
PolicyDecays == {[num |-> 0, den |-> 1], [num |-> 1, den |-> 2], [num |-> 1, den |-> 1],
                 [num |-> 3, den |-> 2], [num |-> -1, den |-> 2]}
PolicyParams ==
    [stroke_reward : {0}, max_dist_base : {0, 1, 3, 10}, max_dist_decay : PolicyDecays,
     max_dist_min : {0, 2, 16777217}]
Ages == {0, 1, 29, 30, 31, 59, 60, 90, 300}

InitMaxDist ==
    /\ entry = "max_dist"
    /\ params \in PolicyParams
    /\ age = 0
    /\ radius = 0
    /\ successor = "absent"
    /\ settings = [sidelen |-> DRAWING_CANVAS_SIZE, proximity_importance |-> 0]
    /\ target_pixels = NoTable
    /\ weights = NoTable
    /\ frame_count = LaunchFrame
    /\ shared_colors = NoTable
    /\ shared_pixel_data = NoTable
    /\ colors_lock = "free"
    /\ pixel_data_lock = "free"
    /\ colors = NoTable
    /\ pixel_data = NoTable
    /\ pixels = <<>>
    /\ rng = RNG_SEED % RngPeriod
    /\ max_swaps = 0
    /\ attempt = 0
    /\ swaps_made = 0
    /\ apos = NoPos
    /\ bpos = NoPos
    /\ pc = "uncalled"
    /\ result = NoResult
    /\ my_id = 1
    /\ current_id = 1
    /\ chan = <<>>
    /\ rx_alive = TRUE
    /\ paints = 0

\* A call params.max_dist(a).
CallMaxDist ==
    /\ entry = "max_dist"
    /\ \E a \in Ages :
          /\ age' = a
          /\ radius' = max_dist(params, a)
    /\ pc' = "called"
    /\ UNCHANGED <<entry, settings, target_pixels, weights, my_id, shared, outside, params,
                   frame_count, colors, pixel_data, pixels, rng, max_swaps, attempt,
                   swaps_made, apos, bpos, result, successor>>

NextMaxDist == CallMaxDist

SpecMaxDist == InitMaxDist /\ [][NextMaxDist]_vars

\* ---------------------------------------------------------------- supersession

\* A run of the worker that a launcher supersedes: the side length is the canvas's.
InitSupersede ==
    /\ Init
    /\ entry = "genetic"
    /\ settings.sidelen = DRAWING_CANVAS_SIZE

\* The launcher supersedes the run: it advances the generation token and starts a
\* worker stamped with the new value; the old worker is left to notice by itself.
Launch ==
    /\ entry = "genetic"
    /\ Running
    /\ successor = "absent"
    /\ current_id = my_id
    /\ current_id' = current_id + 1
    /\ successor' = "setup"
    /\ UNCHANGED <<entry, settings, target_pixels, weights, my_id, age, radius, shared,
                   chan, rx_alive, params, frame_count, colors, pixel_data, pixels, rng,
                   max_swaps, attempt, swaps_made, apos, bpos, pc, result>>

\* The successor is a second call of drawing_process_genetic, followed through its
\* phases only: the setup, the attempts of a batch, the end-of-batch check.
SuccessorStep(from, to) ==
    /\ entry = "genetic"
    /\ successor = from
    /\ successor' = to
    /\ UNCHANGED <<entry, settings, target_pixels, weights, my_id, age, radius, shared,
                   outside, params, frame_count, colors, pixel_data, pixels, rng,
                   max_swaps, attempt, swaps_made, apos, bpos, pc, result>>

\* Its permutation is built and its first batch starts.
SuccessorSetup == SuccessorStep("setup", "batch")
\* Its batch runs all its attempts.
SuccessorBatch == SuccessorStep("batch", "check")
\* Its stamp my_id + 1 is compared with the live token.
SuccessorCheck ==
    SuccessorStep("check", IF current_id # my_id + 1 THEN "returned" ELSE "batch")

NextSupersede ==
    \/ GeneticSetupRead
    \/ GeneticSetupBuild
    \/ ReadColors
    \/ CloneColors
    \/ ReadPixelData
    \/ ClonePixelData
    \/ GeneticDraw
    \/ GeneticEval
    \/ Publish
    \/ CheckGeneration
    \/ SendCancelled
    \/ Receive
    \/ Launch
    \/ SuccessorSetup
    \/ SuccessorBatch
    \/ SuccessorCheck

SpecSupersede == InitSupersede /\ [][NextSupersede]_vars

\* ---------------------------------------------------------------- claims

\* A published or returned sequence of source indices holds every index of
\* 0 .. sidelen * sidelen - 1 exactly once.
IsBijection(a) ==
    /\ DOMAIN a = 0 .. (settings.sidelen * settings.sidelen - 1)
    /\ \A k \in DOMAIN a : Cardinality({i \in DOMAIN a : a[i] = k}) = 1

\* C1: once the identity ordering is built, the source indices of the permutation
\* hold every index of 0 .. sidelen * sidelen - 1 exactly once, in every state of a
\* batch of DrawingState::step and of the worker, and so does every permutation that
\* step returns or that is published as UpdateAssignments.
C1_PermutationInvariant ==
    /\ pixels # <<>> => IsBijection(Assignments(pixels, settings.sidelen))
    /\ result.kind = "Some" => IsBijection(result.assignments)
    /\ \A k \in 1 .. Len(chan) :
          chan[k].kind = "UpdateAssignments" => IsBijection(chan[k].assignments)

IdentityAssignments == [i \in 0 .. (settings.sidelen * settings.sidelen - 1) |-> i]

\* C1 witness: after accepted swaps the worker has published a permutation that is no
\* longer the identity.
C1_Witness ==
    /\ entry = "genetic"
    /\ chan # <<>>
    /\ chan[1].kind = "UpdateAssignments"
    /\ chan[1].assignments # IdentityAssignments
    /\ pixels # <<>>
    /\ Assignments(pixels, settings.sidelen) # chan[1].assignments

\* What the worker owns: its permutation, generator, loop counters and position.
private == <<pixels, rng, attempt, swaps_made, apos, bpos, colors, pixel_data>>

Cohesion(newpos, oldpos) ==
    stroke_reward_with_params(newpos, oldpos, pixel_data, pixels, frame_count, params,
                              FALSE).value
BaseCost(p, pos) ==
    calc_drawing_heuristic(p, <<PosX(pos, settings.sidelen), PosY(pos, settings.sidelen)>>,
                           target_pixels[pos], weights[pos], colors,
                           settings.proximity_importance)
ClaimedImprovement ==
    LET current_A == pixels[apos].h + Cohesion(apos, apos)
        current_B == pixels[bpos].h + Cohesion(bpos, bpos)
        b_on_a == BaseCost(pixels[bpos], apos) + Cohesion(apos, bpos)
        a_on_b == BaseCost(pixels[apos], bpos) + Cohesion(bpos, apos)
    IN  (current_A - b_on_a) + (current_B - a_on_b)

\* The attempt in progress passed the locality gate.
PassedGate ==
    ~GateRejects(apos, bpos, settings.sidelen,
                 RadiusAt(bpos, pixel_data, frame_count, params))

\* An attempt is being evaluated and the step completes it without a panic.
AttemptCompletes == pc = "eval" /\ pc' \notin {"eval", "panicked"}

\* The source pixels at A and B have changed places and no other entry has moved.
EntriesSwapped ==
    \A i \in DOMAIN pixels :
        LET j == IF i = apos THEN bpos ELSE IF i = bpos THEN apos ELSE i
        IN  /\ pixels'[i].src_x = pixels[j].src_x
            /\ pixels'[i].src_y = pixels[j].src_y

\* C3: an attempt that passed the locality gate swaps the entries at A and B, and
\* counts a swap, exactly when (current_A - b_on_a) + (current_B - a_on_b) > 0; with
\* an improvement of 0 or less the permutation and the swap count stay as they are;
\* and no step other than such an accepted attempt changes the permutation once it
\* is built.
C3_AcceptanceRule ==
    [][/\ (AttemptCompletes /\ PassedGate) =>
              IF ClaimedImprovement > 0
              THEN /\ EntriesSwapped
                   /\ swaps_made' = swaps_made + 1
              ELSE /\ pixels' = pixels
                   /\ swaps_made' = swaps_made
       /\ (pixels # <<>> /\ pixels' # pixels) =>
              /\ AttemptCompletes
              /\ PassedGate
              /\ ClaimedImprovement > 0
      ]_vars

\* C3 witness: in one batch of the worker an attempt was accepted and another one was
\* not.
C3_Witness ==
    /\ entry = "genetic"
    /\ pc \in {"draw", "publish"}
    /\ swaps_made >= 1
    /\ attempt > swaps_made

\* C4: no attempt of a batch ends in an error: whatever the side length, the
\* permutation and the metadata snapshot, no index read during an attempt is out of
\* bounds and no age subtraction goes below zero, so the engine never stands
\* panicked after its permutation was built because of an index or a subtraction.
C4_NoEvaluationError ==
    ~(/\ pc = "panicked"
      /\ pixels # <<>>
      /\ result.kind \in {IndexOutOfBounds, SubtractOverflow})

\* Canvas positions next to pos: up, left, right or down of it on the canvas.
CanvasX(pos) == pos % DRAWING_CANVAS_SIZE
CanvasY(pos) == pos \div DRAWING_CANVAS_SIZE
Adjacent(pos) ==
    {n \in CanvasCells :
        Abs(CanvasX(n) - CanvasX(pos)) + Abs(CanvasY(n) - CanvasY(pos)) = 1}
Diagonal(pos) ==
    {n \in CanvasCells :
        Abs(CanvasX(n) - CanvasX(pos)) = 1 /\ Abs(CanvasY(n) - CanvasY(pos)) = 1}

\* The stroke of the cell of the source pixel that occupies a position.
OccupantStroke(pos) == pixel_data[CanvasIndex(pixels[pos])].stroke_id

\* Some occupant of a position of the set shares the stroke of oldpos's occupant.
SharesStroke(positions, oldpos) ==
    \E n \in positions \cap DOMAIN pixels : OccupantStroke(n) = OccupantStroke(oldpos)

C5_LocalityBounds ==
    [][/\ (pc = "called" /\ age' > age) => radius' <= radius
       /\ radius' >= params.max_dist_min]_vars

\* The decay is a factor in [0, 1]; the floor is a value f32 holds exactly.
DecayInUnitInterval ==
    /\ params.max_dist_decay.num >= 0
    /\ params.max_dist_decay.num <= params.max_dist_decay.den
FloorExactInF32 == U32AsF32(params.max_dist_min) = params.max_dist_min

\* C5 amended: for every DrawingParams whose max_dist_decay lies in [0, 1], a call
\* with a greater age never returns a greater radius; and for every DrawingParams
\* whose max_dist_min is exactly representable as f32, every call returns at least
\* max_dist_min.
C5_LocalityBoundsAmended ==
    [][/\ DecayInUnitInterval => ((pc = "called" /\ age' > age) => radius' <= radius)
       /\ FloorExactInF32 => radius' >= params.max_dist_min]_vars

\* C5 witness: with base 10, decay 1/2 and floor 2 the call at age 300 has decayed
\* to the floor.
C5_Witness ==
    /\ pc = "called"
    /\ params.max_dist_base = 10
    /\ params.max_dist_decay = [num |-> 1, den |-> 2]
    /\ params.max_dist_min = 2
    /\ age = 300
    /\ radius = 2

\* A message was put on the channel by this step.
Sent(msg) == chan' = Append(chan, msg)
InBatch(p) == p \in {"draw", "eval"}

\* C7: when a batch of the continuous worker ends, the worker sends UpdateAssignments
\* with the full permutation as it stands at the end of that batch if and only if
\* the batch accepted at least one swap; nothing is sent while a batch runs; the
\* generation check is reached only from the publication step of the batch, and the
\* next batch starts only after that check.
C7_PublicationRule ==
    [][entry = "genetic" =>
         /\ (pc = "publish" /\ pc' # pc /\ swaps_made > 0 /\ rx_alive) =>
               /\ Sent(UpdateAssignments(Assignments(pixels, settings.sidelen)))
               /\ pixels' = pixels
               /\ pc' = "check"
         /\ (pc = "publish" /\ pc' # pc /\ swaps_made = 0) =>
               /\ chan' = chan
               /\ pc' = "check"
         /\ (Len(chan') > Len(chan) /\ chan'[Len(chan')].kind = "UpdateAssignments") =>
               /\ pc = "publish"
               /\ swaps_made > 0
         /\ (InBatch(pc) /\ pc' # "publish") => Len(chan') <= Len(chan)
         /\ (pc' = "check" /\ pc # "check") => pc = "publish"
         /\ (pc' = "publish" /\ pc # "publish") => InBatch(pc) \/ pc = "clone_pixel_data"
         /\ (pc = "check" /\ pc' # pc) => pc' \in {"read_colors", "cancel"}
         /\ (InBatch(pc') /\ ~InBatch(pc)) => pc = "clone_pixel_data"]_vars

\* C7 witness: a batch that swapped two entries has just been published and the
\* channel holds the permutation of the end of that batch.
C7_Witness ==
    /\ entry = "genetic"
    /\ pc = "check"
    /\ swaps_made > 0
    /\ chan = <<UpdateAssignments(Assignments(pixels, settings.sidelen))>>
    /\ Assignments(pixels, settings.sidelen) # IdentityAssignments

\* The step attempts a send on the output channel.
SendAttempted == (pc = "publish" /\ swaps_made > 0) \/ pc = "cancel"

\* C9: whenever a send on the output channel fails because the consumer is
\* disconnected, for UpdateAssignments and for Cancelled alike, the worker returns
\* and the result of drawing_process_genetic is the error.
C9_SendFailurePropagated ==
    [][(entry = "genetic" /\ SendAttempted /\ ~rx_alive /\ pc' # pc) =>
         /\ pc' = "returned"
         /\ result'.kind = "Err"]_vars

\* A step of the worker, as opposed to a step of a collaborator.
WorkerStep == pc' # pc \/ attempt' # attempt \/ rng' # rng \/ pixels' # pixels

\* C10: in every interleaving with the painting collaborator, no step of the worker
\* changes the shared colour table or the shared CanvasCell table; the worker takes
\* read locks only, holds none while a batch runs, and a change of a shared table
\* is a step of the painter that leaves the worker's state alone.
C10_WorkerReadOnly ==
    [][entry = "genetic" =>
         /\ WorkerStep => UNCHANGED <<shared_colors, shared_pixel_data, paints>>
         /\ (shared_colors' # shared_colors \/ shared_pixel_data' # shared_pixel_data) =>
               /\ paints' = paints + 1
               /\ UNCHANGED <<colors, pixel_data, pixels, rng, pc, attempt, swaps_made>>
         /\ colors_lock' \in {"free", "read"}
         /\ pixel_data_lock' \in {"free", "read"}
         /\ InBatch(pc') => (colors_lock' = "free" /\ pixel_data_lock' = "free")
         /\ colors_lock' = "read" => pc' \in {"setup_build", "clone_colors"}
         /\ pixel_data_lock' = "read" => pc' = "clone_pixel_data"]_vars

\* C10 witness: a batch is under way with both locks free, the painter has written
\* a shared table since the snapshot, and the worker has reordered its permutation.
C10_Witness ==
    /\ entry = "genetic"
    /\ pc = "eval"
    /\ paints > 0
    /\ colors_lock = "free"
    /\ pixel_data_lock = "free"
    /\ (shared_colors # colors \/ shared_pixel_data # pixel_data)
    /\ Assignments(pixels, settings.sidelen) # IdentityAssignments

\* C11: once the worker has built its permutation, as long as its stamp equals the
\* live token and the consumer is connected (every send succeeds), no step stops
\* the worker: it neither returns nor panics; the end-of-batch check with an equal
\* token leads to the next batch whether or not the batch swapped anything; and
\* the channel never holds a message other than UpdateAssignments and Cancelled.
C11_NoConvergenceExit ==
    [][entry = "genetic" =>
         /\ (pixels # <<>> /\ Running /\ my_id = current_id /\ rx_alive) =>
               pc' \notin {"returned", "panicked"}
         /\ (pc = "check" /\ my_id = current_id /\ pc' # pc) => pc' = "read_colors"
         /\ \A k \in 1 .. Len(chan') :
               chan'[k].kind \in {"UpdateAssignments", "Cancelled"}]_vars

\* C12: when the launcher has advanced the generation token and started a worker
\* stamped with the new value, the superseded worker and the new worker are never
\* both executing a batch at the same time.
C12_WorkersSequential ==
    ~(/\ entry = "genetic"
      /\ successor = "batch"
      /\ InBatch(pc))

\* The radius as the formula states it, in exact arithmetic:
\* max(round(max_dist_base * max_dist_decay^(age div 30)), max_dist_min).
FormulaRadius(p, a) ==
    LET k == a \div 30
    IN  Max(RoundHalfAway(p.max_dist_base * Pow(p.max_dist_decay.num, k),
                          Pow(p.max_dist_decay.den, k)),
            p.max_dist_min)

\* The parameters of the example: base 10, decay 0.5, floor 2.
ExampleParams ==
    /\ params.max_dist_base = 10
    /\ params.max_dist_decay = [num |-> 1, den |-> 2]
    /\ params.max_dist_min = 2

\* What the formula claims of the call just made.
RadiusAsFormula ==
    /\ radius = FormulaRadius(params, age)
    /\ radius = max_dist(params, 30 * (age \div 30))
    /\ radius = max_dist(params, 30 * (age \div 30) + 29)
    /\ ExampleParams =>
          /\ age = 0 => radius = 10
          /\ age = 30 => radius = 5
          /\ age = 60 => radius = 3
          /\ age = 300 => radius = 2

FormulaExactInF32 ==
    /\ U32AsF32(params.max_dist_base) = params.max_dist_base
    /\ U32AsF32(params.max_dist_min) = params.max_dist_min
    /\ params.max_dist_decay.den \in {1, 2}
    /\ age \div 30 <= 100
    /\ Abs(params.max_dist_base * Pow(params.max_dist_decay.num, age \div 30)) <= 16777216

CostAt(arrangement, pos) ==
    calc_drawing_heuristic(arrangement[pos],
                           <<PosX(pos, settings.sidelen), PosY(pos, settings.sidelen)>>,
                           target_pixels[pos], weights[pos], colors,
                           settings.proximity_importance)
    + stroke_reward_with_params(pos, pos, pixel_data, arrangement, frame_count, params,
                                FALSE).value

\* The total cost of an arrangement: the sum of CostAt over the positions up to n.
RECURSIVE CostUpTo(_, _)
CostUpTo(arrangement, n) ==
    IF n < 0 THEN 0 ELSE CostAt(arrangement, n) + CostUpTo(arrangement, n - 1)
TotalCost(arrangement) == CostUpTo(arrangement, settings.sidelen * settings.sidelen - 1)

\* The step accepts a swap.
SwapAccepted == pc = "eval" /\ swaps_made' = swaps_made + 1

\* C14: every accepted swap leaves the total cost of the arrangement, the sum over
\* all positions of the occupant's base cost plus its cohesion term against the
\* snapshot of the batch, strictly lower than it was before the swap.
C14_SwapsReduceCost ==
    [][SwapAccepted => TotalCost(pixels') < TotalCost(pixels)]_vars

\* Distances between two positions of the permutation, and the radii the attempt
\* computes for them.
DistX(a, b) == Abs(PosX(b, settings.sidelen) - PosX(a, settings.sidelen))
DistY(a, b) == Abs(PosY(b, settings.sidelen) - PosY(a, settings.sidelen))
Radius(pos) == RadiusAt(pos, pixel_data, frame_count, params)

\* B is A offset in x and in y by values of [-radius_A, radius_A], clamped to the
\* canvas of the engine.
DrawnAround(a, b) ==
    \E ox \in (0 - Radius(a)) .. Radius(a), oy \in (0 - Radius(a)) .. Radius(a) :
        /\ PosX(b, settings.sidelen)
              = Clamp(PosX(a, settings.sidelen) + ox, 0, settings.sidelen - 1)
        /\ PosY(b, settings.sidelen)
              = Clamp(PosY(a, settings.sidelen) + oy, 0, settings.sidelen - 1)

\* C15: every attempt draws B by offsetting A in x and y by values of
\* [-radius_A, radius_A] clamped to the canvas; every accepted swap has |dx| and |dy|
\* at most min(radius_A, radius_B); and an attempt whose |dx| or |dy| exceeds the
\* radius of B is abandoned without evaluating a cost: it is counted, it cannot
\* fail, and it leaves the permutation and the swap counter as they are.
C15_LocalityGate ==
    [][/\ (pc = "draw" /\ pc' = "eval") => DrawnAround(apos', bpos')
       /\ SwapAccepted =>
             /\ DistX(apos, bpos) <= Min(Radius(apos), Radius(bpos))
             /\ DistY(apos, bpos) <= Min(Radius(apos), Radius(bpos))
       /\ (/\ pc = "eval"
           /\ pc' # pc
           /\ bpos \in DOMAIN pixel_data
           /\ (DistX(apos, bpos) > Radius(bpos) \/ DistY(apos, bpos) > Radius(bpos))) =>
             /\ pixels' = pixels
             /\ swaps_made' = swaps_made
             /\ attempt' = attempt + 1
             /\ pc' # "panicked"]_vars

\* C15 witness: an attempt drew a B whose own radius is smaller than the distance
\* to A although exchanging the two would improve the cost; the gate is about to
\* abandon it.
C15_Witness ==
    /\ pc = "eval"
    /\ settings.sidelen = DRAWING_CANVAS_SIZE
    /\ apos # bpos
    /\ Radius(apos) > Radius(bpos)
    /\ DistX(apos, bpos) > Radius(bpos)
    /\ ClaimedImprovement > 0

\* The radius of a position taken from its occupant: max_dist of the edit age of the
\* CanvasCell of the source pixel that sits at the position.
OccupantRadius(pos) ==
    max_dist(params,
             saturating_sub(frame_count,
                            pixel_data[CanvasIndex(pixels[pos])].last_edited))

\* C16: in every attempt the radius of A that bounds the draw of B, and the radius
\* of B that the gate compares with, are max_dist of the edit age of the occupant
\* (the cell of the source pixel sitting at the position), whatever the permutation:
\* B lies within the occupant radius of A, and the attempt is abandoned exactly when
\* |dx| or |dy| exceeds the occupant radius of B.
C16_RadiusSource ==
    [][/\ (pc = "draw" /\ pc' = "eval") =>
             /\ DistX(apos', bpos') <= OccupantRadius(apos')
             /\ DistY(apos', bpos') <= OccupantRadius(apos')
       /\ (pc = "eval" /\ pc' \notin {"eval", "panicked"}) =>
             (PassedGate <=> /\ DistX(apos, bpos) <= OccupantRadius(bpos)
                             /\ DistY(apos, bpos) <= OccupantRadius(bpos))]_vars

\* Every cached h is the base cost of the pixel at its position against the colour
\* table of the batch.
CachedCostsCurrent == \A p \in DOMAIN pixels : pixels[p].h = BaseCost(pixels[p], p)

\* A batch is about to run its first attempt on the tables it was given.
BatchStarts == pc = "draw" /\ attempt = 0

\* C17: whenever a batch starts, after any earlier batches and writes of the painter
\* to the colour table, the cached h of the pixel at every position is its base cost
\* at that position against the colour table this batch uses; and an attempt that
\* drew A = B is never accepted as a swap.
C17_CachedCostInvariant ==
    [][/\ BatchStarts' => CachedCostsCurrent'
       /\ SwapAccepted => apos # bpos]_vars

\* The order of the worker's positions along one turn of its loop, from the setup to
\* the end of the run.
LoopOrder ==
    <<"setup", "setup_build", "read_colors", "clone_colors", "read_pixel_data",
      "clone_pixel_data", "draw", "eval", "publish", "check", "cancel", "returned",
      "panicked">>
Rank(p) == CHOOSE k \in 1 .. Len(LoopOrder) : LoopOrder[k] = p

\* The live token differs from the worker's stamp.
Superseded == my_id # current_id

\* C18: once the live token differs from the worker's stamp, the worker never goes
\* back to an earlier point of its loop, so it starts at most one further batch and
\* publishes at most once more; a batch in progress is not cut short: it is left
\* only for the publication step, with all its attempts made; the check that follows
\* leads to the send of Cancelled, which is sent and ends the run.
C18_CancellationLatency ==
    [][(entry = "genetic" /\ Superseded /\ pc' # pc) =>
         /\ Rank(pc') >= Rank(pc) \/ (pc = "eval" /\ pc' = "draw")
         /\ (InBatch(pc) /\ ~InBatch(pc')) => (pc' = "publish" /\ attempt' = max_swaps)
         /\ pc = "check" => pc' = "cancel"
         /\ pc = "cancel" => (pc' = "returned" /\ Sent(Cancelled))]_vars

\* C19: the worker copies the colour table and the CanvasCell table before every
\* batch, each while it holds the read lock of that table only, and releases the
\* lock with the copy; the copies change at no other step, so every attempt of the
\* batch is decided on them whatever the painter writes meanwhile, and the write is
\* in the copies of the next batch; no lock is held while a batch runs.
C19_SnapshotIsolation ==
    [][entry = "genetic" =>
         /\ (pc = "clone_colors" /\ pc' # pc) =>
               /\ colors_lock = "read" /\ pixel_data_lock = "free"
               /\ colors' = shared_colors
               /\ colors_lock' = "free"
         /\ (pc = "clone_pixel_data" /\ pc' # pc) =>
               /\ pixel_data_lock = "read" /\ colors_lock = "free"
               /\ pixel_data' = shared_pixel_data
               /\ pixel_data_lock' = "free"
         /\ pc # "clone_colors" => colors' = colors
         /\ pc # "clone_pixel_data" => pixel_data' = pixel_data
         /\ (InBatch(pc') /\ ~InBatch(pc)) => pc = "clone_pixel_data"
         /\ (pc = "read_pixel_data" /\ pc' # pc) => pc' = "clone_pixel_data"
         /\ (pc' = "read_pixel_data" /\ pc' # pc) => pc = "clone_colors"
         /\ InBatch(pc) => (colors_lock = "free" /\ pixel_data_lock = "free")
         /\ (AttemptCompletes /\ PassedGate) =>
               (swaps_made' = swaps_made + 1 <=> ClaimedImprovement > 0)]_vars

\* C19 witness: a batch starts on a copy of the CanvasCell table that holds the cell
\* the painter wrote while the worker was running, after an earlier batch has
\* reordered the permutation.
C19_Witness ==
    /\ entry = "genetic"
    /\ BatchStarts
    /\ paints > 0
    /\ Assignments(pixels, settings.sidelen) # IdentityAssignments
    /\ pixel_data = shared_pixel_data
    /\ \E c \in CanvasCells : pixel_data[c].last_edited = LateFrame

\* The attempt in progress is rejected: the gate abandons it, or its improvement is
\* not strictly positive.
Rejected == ~PassedGate \/ ClaimedImprovement <= 0

\* C20: an attempt that is rejected, by the locality gate or because its improvement
\* is not strictly positive, leaves the permutation, every cached h and the swap
\* counter unchanged (the generator advanced when A and B were drawn); the counter
\* starts at 0 with the batch and grows by one with each accepted attempt, so that
\* step returns None, and the worker goes on to its check without a send, exactly
\* when every attempt of the batch was rejected.
C20_RejectedAttemptNoOp ==
    [][/\ (pc = "draw" /\ pc' = "eval") =>
             (rng' = Advance(rng, 3) /\ pixels' = pixels /\ swaps_made' = swaps_made)
       /\ AttemptCompletes =>
             /\ rng' = rng
             /\ attempt' = attempt + 1
             /\ IF Rejected
                THEN pixels' = pixels /\ swaps_made' = swaps_made
                ELSE pixels' # pixels /\ swaps_made' = swaps_made + 1
       /\ (pc \in {"idle", "clone_pixel_data"} /\ pc' # pc) => swaps_made' = 0
       /\ (pc = "return" /\ pc' # pc) =>
             /\ result'.kind = (IF swaps_made = 0 THEN "None" ELSE "Some")
             /\ pixels' = pixels
       /\ (entry = "genetic" /\ pc = "publish" /\ pc' # pc) =>
             (swaps_made = 0 <=> (chan' = chan /\ pc' = "check"))]_vars

\* C20 witness: a call of step made all its attempts, none was accepted, and it
\* returned None with the permutation it started from.
C20_Witness ==
    /\ entry = "step"
    /\ pc = "idle"
    /\ result.kind = "None"
    /\ max_swaps = MaxSwaps
    /\ attempt = max_swaps
    /\ swaps_made = 0

====
